---- MODULE Spec2Model ----
(***************************************************************************)
(* Model of main-application.py: the four stages fetch_retail_data,        *)
(* prepare_data, create_dashboard, generate_insights and the driver main.  *)
(*                                                                         *)
(* Cells of a table are tagged tuples, so that a text cell, a number, a    *)
(* Timestamp and a missing value are different values:                     *)
(*   <<"nan">>            pandas NaN (missing cell)                         *)
(*   <<"nat">>            pandas NaT (missing Timestamp)                    *)
(*   <<"num", n>>         a number                                         *)
(*   <<"str", s>>         an opaque text cell                              *)
(*   <<"chars", cs>>      a text cell whose characters matter (a date as   *)
(*                        text), cs the sequence of its character codes    *)
(*   <<"ts", y, m, d>>    a pandas Timestamp                               *)
(* A table (DataFrame) is [columns |-> sequence of names, rows |-> sequence*)
(* of rows], a row a function from the column names to cells.  The index   *)
(* of a table read by read_csv is the RangeIndex; the model writes label k *)
(* of pandas as position k + 1.                                            *)
(***************************************************************************)
EXTENDS Integers, Sequences, FiniteSets

VARIABLES pc, http, raw_sales, raw_product, sales_data, product_data,
          dashboard_html, insights_txt, trace, error

vars == <<pc, http, raw_sales, raw_product, sales_data, product_data,
          dashboard_html, insights_txt, trace, error>>

\* ------------------------------------------------------------------ bounds
\* Longest order table of Spec / SpecPrepare / SpecInsights.
MaxOrders == 3
\* Longest product table enumerated over all three price fields.
MaxShort == 3
\* Product tables of TopN + 1 .. TopN + MaxOver rows are enumerated too.
MaxOver == 1

\* nlargest(10, 'ListPrice')
TopN == 10

\* ------------------------------------------------------------------ cells
NaN == <<"nan">>
NaT == <<"nat">>
Empty == <<"empty">>
Num(n) == <<"num", n>>
Str(s) == <<"str", s>>
Chars(cs) == <<"chars", cs>>
Ts(y, m, d) == <<"ts", y, m, d>>

IsNum(c) == c[1] = "num"
IsNA(c) == c[1] \in {"nan", "nat"}
IsTs(c) == c[1] = "ts"

Range(s) == {s[i] : i \in 1..Len(s)}
Min(a, b) == IF a <= b THEN a ELSE b

RECURSIVE SumSeq(_)
SumSeq(s) == IF s = <<>> THEN 0 ELSE Head(s) + SumSeq(Tail(s))

EmptyTable == [columns |-> <<>>, rows |-> <<>>]

\* df[name] as the sequence of the column's cells
Column(df, name) == [i \in 1..Len(df.rows) |-> df.rows[i][name]]

\* Series.sum(): NaN is skipped, the sum of nothing is 0
SeriesSum(col) ==
    SumSeq([i \in 1..Len(col) |-> IF IsNum(col[i]) THEN col[i][2] ELSE 0])

\* Series.count(): the number of cells that are not missing
SeriesCount(col) == Cardinality({i \in 1..Len(col) : ~IsNA(col[i])})

\* Series.mean(): NaN is skipped; the mean of nothing is NaN.  The quotient
\* is kept exact, as <<"mean", sum, count>>.
SeriesMean(col) ==
    IF SeriesCount(col) = 0 THEN NaN
    ELSE <<"mean", SeriesSum(col), SeriesCount(col)>>

\* ------------------------------------------------------------ fetch (12-23)
\* A response is [reached, status, text]; reached = FALSE is requests.get
\* raising ConnectionError.  text is the body as lines of fields, the first
\* line the header.  A field is Empty or a cell.
Success(status) == status \in 200..299

\* pd.read_csv raises EmptyDataError on an empty body and ParserError on a
\* line with more fields than the header.
ReadCsvError(text) ==
    IF text = <<>> THEN "EmptyDataError"
    ELSE IF \E i \in 2..Len(text) : Len(text[i]) > Len(text[1]) THEN "ParserError"
    ELSE ""

\* An empty field, and a field missing at the end of a short line, are NaN.
ReadField(line, j) ==
    IF j > Len(line) \/ line[j] = Empty THEN NaN ELSE line[j]

ColumnPos(header, name) == CHOOSE j \in 1..Len(header) : header[j] = name

ReadCsv(text) ==
    [columns |-> text[1],
     rows |-> [i \in 1..(Len(text) - 1) |->
                 [c \in Range(text[1]) |->
                    ReadField(text[i + 1], ColumnPos(text[1], c))]]]

\* The exception fetch_retail_data raises on these two responses, "" if none.
\* response.status_code is never looked at.
FetchError(rs, rp) ==
    IF ~rs.reached THEN "ConnectionError"
    ELSE IF ReadCsvError(rs.text) # "" THEN ReadCsvError(rs.text)
    ELSE IF ~rp.reached THEN "ConnectionError"
    ELSE ReadCsvError(rp.text)

\* ---------------------------------------------------------- prepare (25-34)
IsDigit(c) == c \in 48..57
Digit(c) == c - 48

IsLeap(y) == (y % 4 = 0 /\ y % 100 # 0) \/ y % 400 = 0
DaysInMonth(y, m) ==
    IF m = 2 THEN (IF IsLeap(y) THEN 29 ELSE 28)
    ELSE IF m \in {4, 6, 9, 11} THEN 30 ELSE 31

DateYear(cs) == 1000 * Digit(cs[1]) + 100 * Digit(cs[2]) + 10 * Digit(cs[3]) + Digit(cs[4])
DateMonth(cs) == 10 * Digit(cs[6]) + Digit(cs[7])
DateDay(cs) == 10 * Digit(cs[9]) + Digit(cs[10])

\* The text is an ISO date YYYY-MM-DD of the calendar.
ParsesAsDate(cs) ==
    /\ Len(cs) = 10
    /\ \A k \in {1, 2, 3, 4, 6, 7, 9, 10} : IsDigit(cs[k])
    /\ cs[5] = 45
    /\ cs[8] = 45
    /\ DateMonth(cs) \in 1..12
    /\ DateDay(cs) \in 1..DaysInMonth(DateYear(cs), DateMonth(cs))

\* pd.to_datetime on one cell (errors='raise'): text that is no date raises;
\* a Timestamp stays; a missing cell is NaT; a number n is n nanoseconds
\* after the epoch (the numbers of the model are far below one day).
ToDatetimeRaises(c) ==
    IF c[1] = "chars" THEN ~ParsesAsDate(c[2]) ELSE c[1] = "str"

\* ToDatetime with errors='coerce' semantics on cells that are not text: a
\* Timestamp is not kept.
ToDatetime_Coerce(c) ==
    IF IsTs(c) \/ IsNA(c) \/ IsNum(c) THEN NaT
    ELSE Ts(DateYear(c[2]), DateMonth(c[2]), DateDay(c[2]))

ToDatetime(c) ==
    IF IsTs(c) THEN c
    ELSE IF IsNA(c) THEN NaT
    ELSE IF IsNum(c) THEN Ts(1970, 1, 1)
    ELSE Ts(DateYear(c[2]), DateMonth(c[2]), DateDay(c[2]))

SalesColumns == <<"SalesOrderID", "OrderDate", "TotalDue", "Status", "CustomerID">>
ProductColumns == <<"ProductID", "Name", "ListPrice", "ProductLine">>

\* df[[...]]: a new table of the listed columns, in the listed order
Project(df, names) ==
    [columns |-> names,
     rows |-> [i \in 1..Len(df.rows) |-> [c \in Range(names) |-> df.rows[i][c]]]]

HasColumns(df, names) == Range(names) \subseteq Range(df.columns)

\* line 28: sales_data['OrderDate'] = pd.to_datetime(sales_data['OrderDate'])
\* assigns the column of the table object the caller passed.
AssignOrderDate(df) ==
    [df EXCEPT !.rows =
        [i \in 1..Len(df.rows) |->
            [df.rows[i] EXCEPT !["OrderDate"] = ToDatetime(df.rows[i]["OrderDate"])]]]

\* The exception prepare_data raises, "" if none, and the line that raises.
PrepareError(s, p) ==
    IF "OrderDate" \notin Range(s.columns) THEN "KeyError"
    ELSE IF \E i \in 1..Len(s.rows) : ToDatetimeRaises(s.rows[i]["OrderDate"])
         THEN "DateParseError"
    ELSE IF ~HasColumns(s, SalesColumns) THEN "KeyError"
    ELSE IF ~HasColumns(p, ProductColumns) THEN "KeyError"
    ELSE ""

\* Whether line 28 has run when prepare_data ends (returns or raises).
PrepareAssigned(s) ==
    /\ "OrderDate" \in Range(s.columns)
    /\ \A i \in 1..Len(s.rows) : ~ToDatetimeRaises(s.rows[i]["OrderDate"])

\* The table object passed as sales_data, as prepare_data leaves it.
PrepareArgAfter(s) == IF PrepareAssigned(s) THEN AssignOrderDate(s) ELSE s

\* The pair prepare_data returns (when PrepareError is "").
PrepareResult(s, p) ==
    [sales |-> Project(AssignOrderDate(s), SalesColumns),
     product |-> Project(p, ProductColumns)]

\* ------------------------------------------------- create_dashboard (36-93)
\* Timestamp.strftime('%Y-%m'): four digits of the year, '-', two digits of
\* the month; NaT gives NaN.
StrfYearMonth(c) ==
    IF IsTs(c)
    THEN Chars(<<48 + ((c[2] \div 1000) % 10), 48 + ((c[2] \div 100) % 10),
                 48 + ((c[2] \div 10) % 10), 48 + (c[2] % 10), 45,
                 48 + ((c[3] \div 10) % 10), 48 + (c[3] % 10)>>)
    ELSE NaN

\* Python's order of two strings: by code point, a proper prefix first.
LexLess(a, b) ==
    \E k \in 1..(Min(Len(a), Len(b)) + 1) :
        /\ \A j \in 1..(k - 1) : a[j] = b[j]
        /\ \/ (k > Len(a) /\ k <= Len(b))
           \/ (k <= Len(a) /\ k <= Len(b) /\ a[k] < b[k])

\* SortKeys with the keys descending.
RECURSIVE SortKeys_Descending(_)
SortKeys_Descending(S) ==
    IF S = {} THEN <<>>
    ELSE LET greatest == CHOOSE k \in S : \A o \in S \ {k} : LexLess(o[2], k[2])
         IN  <<greatest>> \o SortKeys_Descending(S \ {greatest})

\* groupby sorts the group keys ascending (sort=True)
RECURSIVE SortKeys(_)
SortKeys(S) ==
    IF S = {} THEN <<>>
    ELSE LET least == CHOOSE k \in S : \A o \in S \ {k} : LexLess(k[2], o[2])
         IN  <<least>> \o SortKeys(S \ {least})

\* The group key of every row: sales_data['OrderDate'].dt.strftime('%Y-%m')
MonthKeys(s) == [i \in 1..Len(s.rows) |-> StrfYearMonth(s.rows[i]["OrderDate"])]

\* The cells of column name in the rows whose key is k, in row order.
RECURSIVE GroupCells(_, _, _, _)
GroupCells(s, keys, k, name) ==
    IF s.rows = <<>> THEN <<>>
    ELSE LET rest == GroupCells([s EXCEPT !.rows = Tail(s.rows)], Tail(keys), k, name)
         IN  IF Head(keys) = k THEN <<Head(s.rows)[name]>> \o rest ELSE rest

\* lines 48-50: groupby(key).agg({'TotalDue': 'sum', 'SalesOrderID': 'count'})
\* .reset_index().  groupby drops the rows whose key is missing (dropna=True);
\* 'sum' skips NaN; 'count' counts the cells that are not missing.
MonthlySales(s) ==
    LET keys == MonthKeys(s)
        order == SortKeys({keys[i] : i \in 1..Len(keys)} \ {NaN})
    IN  [g \in 1..Len(order) |->
            [OrderDate |-> order[g],
             TotalDue |-> SeriesSum(GroupCells(s, keys, order[g], "TotalDue")),
             SalesOrderID |-> SeriesCount(GroupCells(s, keys, order[g], "SalesOrderID"))]]

\* line 65: Series.value_counts(): the missing cells are dropped (dropna=True);
\* one entry per distinct label, by descending count, labels of equal count
\* by first occurrence.
Occurrences(col, v) == Cardinality({i \in 1..Len(col) : col[i] = v})
FirstPos(col, v) == CHOOSE i \in 1..Len(col) : col[i] = v /\ \A j \in 1..(i - 1) : col[j] # v

RECURSIVE SortCounts(_, _)
SortCounts(col, S) ==
    IF S = {} THEN <<>>
    ELSE LET top == CHOOSE v \in S : \A o \in S \ {v} :
                        \/ Occurrences(col, v) > Occurrences(col, o)
                        \/ /\ Occurrences(col, v) = Occurrences(col, o)
                           /\ FirstPos(col, v) < FirstPos(col, o)
         IN  <<[label |-> top, count |-> Occurrences(col, top)]>> \o SortCounts(col, S \ {top})

ValueCounts(col) == SortCounts(col, {col[i] : i \in 1..Len(col)} \ {NaN})

\* line 80: DataFrame.nlargest(n, 'ListPrice'), keep='first'.  The rows with a
\* price by descending price, equal prices in row order, then the rows with a
\* missing price in row order; the first n of these.  The result is the
\* sequence of the chosen rows' index labels.
RECURSIVE SortDescending(_, _)
SortDescending(col, S) ==
    IF S = {} THEN <<>>
    ELSE LET top == CHOOSE i \in S : \A j \in S \ {i} :
                        \/ col[i][2] > col[j][2]
                        \/ (col[i][2] = col[j][2] /\ i < j)
         IN  <<top>> \o SortDescending(col, S \ {top})

RECURSIVE Ascending(_)
Ascending(S) ==
    IF S = {} THEN <<>>
    ELSE LET least == CHOOSE i \in S : \A j \in S : i <= j
         IN  <<least>> \o Ascending(S \ {least})

\* NLargest with keep='last': of equal prices the later row first.
RECURSIVE SortDescendingLast(_, _)
SortDescendingLast(col, S) ==
    IF S = {} THEN <<>>
    ELSE LET top == CHOOSE i \in S : \A j \in S \ {i} :
                        \/ col[i][2] > col[j][2]
                        \/ (col[i][2] = col[j][2] /\ i > j)
         IN  <<top>> \o SortDescendingLast(col, S \ {top})

NLargest_KeepLast(n, col) ==
    LET all == SortDescendingLast(col, {i \in 1..Len(col) : IsNum(col[i])})
                 \o Ascending({i \in 1..Len(col) : ~IsNum(col[i])})
    IN  SubSeq(all, 1, Min(n, Len(all)))

NLargest(n, col) ==
    LET all == SortDescending(col, {i \in 1..Len(col) : IsNum(col[i])})
                 \o Ascending({i \in 1..Len(col) : ~IsNum(col[i])})
    IN  SubSeq(all, 1, Min(n, Len(all)))

\* The dtype read_csv gives a column: numeric when it has cells and each is a
\* number or missing, object otherwise (so for a table of no rows).
NumericDtype(col) == Len(col) > 0 /\ \A i \in 1..Len(col) : IsNum(col[i]) \/ col[i] = NaN

\* nlargest raises TypeError on a column of dtype object.
DashboardError(s, p) ==
    IF ~NumericDtype(Column(p, "ListPrice")) THEN "TypeError" ELSE ""

\* The four derived views, as fig.write_html stores them in the document.
top_products(p) ==
    LET idx == NLargest(TopN, Column(p, "ListPrice"))
    IN  [k \in 1..Len(idx) |->
            [index |-> idx[k], Name |-> p.rows[idx[k]]["Name"],
             ListPrice |-> p.rows[idx[k]]["ListPrice"]]]

DashboardDocument(s, p) ==
    [monthly_sales |-> MonthlySales(s),
     status_dist |-> ValueCounts(Column(s, "Status")),
     price_histogram |-> Column(p, "ListPrice"),
     top_products |-> top_products(p)]

\* ----------------------------------------------- generate_insights (95-112)
\* IdxMax returning the last occurrence of the maximum.
IdxMax_Last(col) ==
    CHOOSE i \in 1..Len(col) :
        /\ IsNum(col[i])
        /\ \A j \in 1..Len(col) : IsNum(col[j]) =>
              \/ col[i][2] > col[j][2]
              \/ (col[i][2] = col[j][2] /\ i >= j)

\* Series.idxmax(): the label of the first occurrence of the maximum, missing
\* cells skipped.
IdxMax(col) ==
    CHOOSE i \in 1..Len(col) :
        /\ IsNum(col[i])
        /\ \A j \in 1..Len(col) : IsNum(col[j]) =>
              \/ col[i][2] > col[j][2]
              \/ (col[i][2] = col[j][2] /\ i <= j)

\* idxmax has no maximum to return for a column with no price at all (no
\* rows, or every cell missing): line 102 raises before insights.txt is opened.
InsightsError(s, p) ==
    IF \A i \in 1..Len(p.rows) : ~IsNum(p.rows[i]["ListPrice"]) THEN "ValueError" ELSE ""

Insights(s, p) ==
    [total_sales |-> SeriesSum(Column(s, "TotalDue")),
     total_orders |-> Len(s.rows),
     avg_order_value |-> SeriesMean(Column(s, "TotalDue")),
     avg_product_price |-> SeriesMean(Column(p, "ListPrice")),
     most_expensive_product |-> p.rows[IdxMax(Column(p, "ListPrice"))]["Name"]]

\* ------------------------------------------------------------------ inputs
\* What the two URLs may answer.  Iso(y, m, d) is the text YYYY-MM-DD.
Iso(y, m, d) ==
    Chars(<<48 + ((y \div 1000) % 10), 48 + ((y \div 100) % 10),
            48 + ((y \div 10) % 10), 48 + (y % 10), 45,
            48 + ((m \div 10) % 10), 48 + (m % 10), 45,
            48 + ((d \div 10) % 10), 48 + (d % 10)>>)

SeqsUpTo(S, n) == UNION {[1..k -> S] : k \in 0..n}

SalesHeader ==
    <<"SalesOrderID", "RevisionNumber", "OrderDate", "Status", "CustomerID", "TotalDue">>

\* The order lines the tables are built of: three months of two years (the
\* tenth month and the second of one year), two orders of one month, an
\* order with no identifier, one with no status and no amount, one with no
\* date, and one dated 30 February.
OrderPool ==
    { [id |-> TRUE,  date |-> Iso(2023, 2, 1),   status |-> Str("Shipped"),   total |-> Num(100)],
      [id |-> TRUE,  date |-> Iso(2023, 2, 15),  status |-> Str("Shipped"),   total |-> Num(50)],
      [id |-> TRUE,  date |-> Iso(2023, 10, 5),  status |-> Str("Cancelled"), total |-> Num(75)],
      [id |-> TRUE,  date |-> Iso(2022, 12, 31), status |-> Str("Cancelled"), total |-> Num(50)],
      [id |-> FALSE, date |-> Iso(2023, 2, 1),   status |-> Str("Shipped"),   total |-> Num(100)],
      [id |-> TRUE,  date |-> Iso(2023, 2, 15),  status |-> Empty,            total |-> Empty],
      [id |-> TRUE,  date |-> Empty,             status |-> Str("Shipped"),   total |-> Num(50)],
      [id |-> TRUE,  date |-> Iso(2023, 2, 30),  status |-> Str("Shipped"),   total |-> Num(50)] }

OrderLine(i, o) ==
    <<IF o.id THEN Num(i) ELSE Empty, Num(8), o.date, o.status, Num(1), o.total>>

SalesText(os) == <<SalesHeader>> \o [i \in 1..Len(os) |-> OrderLine(i, os[i])]

Answer(status, text) == [reached |-> TRUE, status |-> status, text |-> text]
Unreachable == [reached |-> FALSE, status |-> 0, text |-> <<>>]
ErrorPage == Answer(404, << <<"404: Not Found">> >>)

TwoOrders ==
    << [id |-> TRUE, date |-> Iso(2023, 2, 1),  status |-> Str("Shipped"), total |-> Num(100)],
       [id |-> TRUE, date |-> Iso(2023, 10, 5), status |-> Str("Cancelled"), total |-> Num(75)] >>

\* Answers that are not a plain 200 with an order table: no answer, an error
\* page, a 500 whose body is a table, an empty body, a line longer than the
\* header, and a table without the CustomerID column.
SalesFaults ==
    { Unreachable,
      ErrorPage,
      Answer(500, SalesText(TwoOrders)),
      Answer(200, <<>>),
      Answer(200, <<SalesHeader, <<Num(1), Num(8), Iso(2023, 2, 1), Str("Shipped"), Num(1), Num(100), Num(0)>> >>),
      Answer(200, << <<"SalesOrderID", "OrderDate", "Status", "TotalDue">>,
                     <<Num(1), Iso(2023, 2, 1), Str("Shipped"), Num(100)>> >>) }

SalesAnswers == {Answer(200, SalesText(os)) : os \in SeqsUpTo(OrderPool, MaxOrders)} \cup SalesFaults
FewSalesAnswers == {Answer(200, SalesText(TwoOrders)), Unreachable, ErrorPage}

ProductHeader == <<"ProductID", "Name", "ProductNumber", "ListPrice", "ProductLine">>
ProductNames == <<"A", "B", "C", "D", "E", "F", "G", "H", "I", "J", "K", "L", "M">>
ProductLineOf(i, price) ==
    <<Num(i), Str(ProductNames[((i - 1) % Len(ProductNames)) + 1]), Str("PN"), price, Str("R")>>

ProductText(prices) ==
    <<ProductHeader>> \o [i \in 1..Len(prices) |-> ProductLineOf(i, prices[i])]

ProductFaults ==
    { Unreachable,
      ErrorPage,
      Answer(500, ProductText(<<Num(10), Num(999)>>)),
      Answer(200, << <<"ProductID", "Name", "ProductLine">>, <<Num(1), Str("A"), Str("R")>> >>) }

\* Short tables over every price field; long tables (more than TopN rows)
\* over two prices, and over one price and the missing price.
PriceLists ==
    SeqsUpTo({Empty, Num(5), Num(500), Num(999)}, MaxShort)
      \cup UNION {[1..k -> {Num(5), Num(999)}] \cup [1..k -> {Empty, Num(999)}] :
                    k \in (TopN + 1)..(TopN + MaxOver)}

ProductAnswers == {Answer(200, ProductText(ps)) : ps \in PriceLists} \cup ProductFaults

\* The table of the spec's scenario, a table of no rows, and tables with no
\* price at all.
FewProductAnswers ==
    { Answer(200, ProductText(<<Num(10), Num(999), Num(5), Num(500)>>)),
      Answer(200, ProductText(<<>>)),
      Answer(200, ProductText(<<Empty>>)),
      Answer(200, ProductText(<<Empty, Empty>>)) } \cup ProductFaults

\* ------------------------------------------------------------ main (114-133)
Call(f) == <<"call", f>>
Return(f) == <<"return", f>>
Raise(f) == <<"raise", f>>
Write(path) == <<"write", path>>
PrintLine(line) == <<"print", line>>

InitWith(salesAnswers, productAnswers) ==
    /\ pc = "print_fetch"
    /\ http \in [sales : salesAnswers, product : productAnswers]
    /\ raw_sales = EmptyTable
    /\ raw_product = EmptyTable
    /\ sales_data = EmptyTable
    /\ product_data = EmptyTable
    /\ dashboard_html = <<>>
    /\ insights_txt = <<>>
    /\ trace = <<>>
    /\ error = ""

Init == InitWith(SalesAnswers, FewProductAnswers)
InitProducts == InitWith(FewSalesAnswers, ProductAnswers)

\* print(line) at position from, the next statement at position to
PrintStep(from, lines, to) ==
    /\ pc = from
    /\ pc' = to
    /\ trace' = trace \o [i \in 1..Len(lines) |-> PrintLine(lines[i])]
    /\ UNCHANGED <<http, raw_sales, raw_product, sales_data, product_data,
                   dashboard_html, insights_txt, error>>

PrintFetching == PrintStep("print_fetch", <<"Fetching data...">>, "fetch")
PrintPreparing == PrintStep("print_prepare", <<"Preparing data...">>, "prepare")
PrintCreating == PrintStep("print_dashboard", <<"Creating dashboard...">>, "dashboard")
PrintGenerating == PrintStep("print_insights", <<"Generating insights...">>, "insights")

SuccessLines ==
    <<"\nDashboard and insights have been generated successfully!",
      "Open 'sales_dashboard.html' in your web browser to view the dashboard.",
      "Check 'insights.txt' for key business metrics.">>

PrintSuccess == PrintStep("print_success", SuccessLines, "done")

\* An uncaught exception of stage f ends main.
Fail(f, exception) ==
    /\ pc' = "failed"
    /\ error' = exception
    /\ trace' = trace \o <<Call(f), Raise(f)>>

\* line 117: sales_data, product_data = fetch_retail_data()
Fetch ==
    /\ pc = "fetch"
    /\ FetchError(http.sales, http.product) = ""
    /\ raw_sales' = ReadCsv(http.sales.text)
    /\ raw_product' = ReadCsv(http.product.text)
    /\ sales_data' = raw_sales'
    /\ product_data' = raw_product'
    /\ trace' = trace \o <<Call("fetch_retail_data"), Return("fetch_retail_data")>>
    /\ pc' = "print_prepare"
    /\ UNCHANGED <<http, dashboard_html, insights_txt, error>>

FetchFail ==
    /\ pc = "fetch"
    /\ FetchError(http.sales, http.product) # ""
    /\ Fail("fetch_retail_data", FetchError(http.sales, http.product))
    /\ UNCHANGED <<http, raw_sales, raw_product, sales_data, product_data,
                   dashboard_html, insights_txt>>

\* line 121: sales_data, product_data = prepare_data(sales_data, product_data).
\* The tables passed are the objects the caller holds (raw_sales,
\* raw_product); the names sales_data, product_data are bound to the result.
PrepareStep(from, to) ==
    /\ pc = from
    /\ PrepareError(sales_data, product_data) = ""
    /\ raw_sales' = PrepareArgAfter(sales_data)
    /\ raw_product' = product_data
    /\ sales_data' = PrepareResult(sales_data, product_data).sales
    /\ product_data' = PrepareResult(sales_data, product_data).product
    /\ trace' = trace \o <<Call("prepare_data"), Return("prepare_data")>>
    /\ pc' = to
    /\ UNCHANGED <<http, dashboard_html, insights_txt, error>>

PrepareFailStep(from) ==
    /\ pc = from
    /\ PrepareError(sales_data, product_data) # ""
    /\ raw_sales' = PrepareArgAfter(sales_data)
    /\ raw_product' = product_data
    /\ sales_data' = raw_sales'
    /\ Fail("prepare_data", PrepareError(sales_data, product_data))
    /\ UNCHANGED <<http, product_data, dashboard_html, insights_txt>>

Prepare == PrepareStep("prepare", "print_dashboard")
PrepareFail == PrepareFailStep("prepare")

\* CreateDashboard sorting the product table it was passed in place
\* (sort_values(inplace=True) in place of nlargest).
CreateDashboard_SortsInPlace ==
    /\ pc = "dashboard"
    /\ DashboardError(sales_data, product_data) = ""
    /\ dashboard_html' = <<DashboardDocument(sales_data, product_data)>>
    /\ product_data' =
          [product_data EXCEPT !.rows =
              LET order == NLargest(Len(product_data.rows), Column(product_data, "ListPrice"))
              IN  [k \in 1..Len(order) |-> product_data.rows[order[k]]]]
    /\ trace' = trace \o <<Call("create_dashboard"), Write("sales_dashboard.html"),
                           Return("create_dashboard")>>
    /\ pc' = "print_insights"
    /\ UNCHANGED <<http, raw_sales, raw_product, sales_data, insights_txt, error>>

\* line 125: create_dashboard(sales_data, product_data); line 93 writes the
\* document once the four views are computed.
CreateDashboard ==
    /\ pc = "dashboard"
    /\ DashboardError(sales_data, product_data) = ""
    /\ dashboard_html' = <<DashboardDocument(sales_data, product_data)>>
    /\ trace' = trace \o <<Call("create_dashboard"), Write("sales_dashboard.html"),
                           Return("create_dashboard")>>
    /\ pc' = "print_insights"
    /\ UNCHANGED <<http, raw_sales, raw_product, sales_data, product_data,
                   insights_txt, error>>

CreateDashboardFail ==
    /\ pc = "dashboard"
    /\ DashboardError(sales_data, product_data) # ""
    /\ Fail("create_dashboard", DashboardError(sales_data, product_data))
    /\ UNCHANGED <<http, raw_sales, raw_product, sales_data, product_data,
                   dashboard_html, insights_txt>>

\* line 129: generate_insights(sales_data, product_data); lines 106-112 write
\* the file once the five values are computed.
GenerateInsights ==
    /\ pc = "insights"
    /\ InsightsError(sales_data, product_data) = ""
    /\ insights_txt' = <<Insights(sales_data, product_data)>>
    /\ trace' = trace \o <<Call("generate_insights"), Write("insights.txt"),
                           Return("generate_insights")>>
    /\ pc' = "print_success"
    /\ UNCHANGED <<http, raw_sales, raw_product, sales_data, product_data,
                   dashboard_html, error>>

GenerateInsightsFail ==
    /\ pc = "insights"
    /\ InsightsError(sales_data, product_data) # ""
    /\ Fail("generate_insights", InsightsError(sales_data, product_data))
    /\ UNCHANGED <<http, raw_sales, raw_product, sales_data, product_data,
                   dashboard_html, insights_txt>>

Next ==
    \/ PrintFetching
    \/ Fetch
    \/ FetchFail
    \/ PrintPreparing
    \/ Prepare
    \/ PrepareFail
    \/ PrintCreating
    \/ CreateDashboard
    \/ CreateDashboardFail
    \/ PrintGenerating
    \/ GenerateInsights
    \/ GenerateInsightsFail
    \/ PrintSuccess

\* main on every order table of the bounds and a few product tables
Spec == Init /\ [][Next]_vars
\* main on every product table of the bounds and a few order tables
SpecProducts == InitProducts /\ [][Next]_vars

\* ------------------------------------------- the stages applied on their own
\* What read_csv makes of the two answers.
FetchedSales == ReadCsv(http.sales.text)
FetchedProduct == ReadCsv(http.product.text)
Parsed(answers) == {a \in answers : a.reached /\ ReadCsvError(a.text) = ""}

\* prepare_data applied to a pair of tables, and again to the pair returned.
InitPrepare ==
    /\ pc = "prepare_first"
    /\ http \in [sales : Parsed(SalesAnswers), product : Parsed(FewProductAnswers)]
    /\ raw_sales = FetchedSales
    /\ raw_product = FetchedProduct
    /\ sales_data = FetchedSales
    /\ product_data = FetchedProduct
    /\ dashboard_html = <<>>
    /\ insights_txt = <<>>
    /\ trace = <<>>
    /\ error = ""

PrepareFirst == PrepareStep("prepare_first", "prepare_second")
PrepareFirstFail == PrepareFailStep("prepare_first")
PrepareSecond == PrepareStep("prepare_second", "prepared_twice")

NextPrepare ==
    \/ PrepareFirst
    \/ PrepareFirstFail
    \/ PrepareSecond

SpecPrepare == InitPrepare /\ [][NextPrepare]_vars

\* generate_insights applied to a pair of prepared tables.
InitInsights ==
    /\ pc = "insights"
    /\ http \in {h \in [sales : Parsed(SalesAnswers), product : Parsed(FewProductAnswers)] :
                   PrepareError(ReadCsv(h.sales.text), ReadCsv(h.product.text)) = ""}
    /\ raw_sales = PrepareArgAfter(FetchedSales)
    /\ raw_product = FetchedProduct
    /\ sales_data = PrepareResult(FetchedSales, FetchedProduct).sales
    /\ product_data = PrepareResult(FetchedSales, FetchedProduct).product
    /\ dashboard_html = <<>>
    /\ insights_txt = <<>>
    /\ trace = <<>>
    /\ error = ""

NextInsights ==
    \/ GenerateInsights
    \/ GenerateInsightsFail

SpecInsights == InitInsights /\ [][NextInsights]_vars

\* ================================================================== claims
Happened(e) == e \in Range(trace)
DashboardWritten == dashboard_html # <<>>
InsightsWritten == insights_txt # <<>>

\* C1: if any stage of main fails, the run has written neither
\* sales_dashboard.html nor insights.txt.
C1_NoArtifactOnFailure ==
    pc = "failed" => (dashboard_html = <<>> /\ insights_txt = <<>>)

\* C2: for a product table of no rows generate_insights completes, writes
\* insights.txt, reports a missing value for the most expensive product and
\* 0 or a missing value for the average product price.
C2_EmptyProductTableHandled ==
    (pc # "insights" /\ product_data.rows = <<>>) =>
        /\ pc = "print_success"
        /\ InsightsWritten
        /\ insights_txt[1].most_expensive_product = NaN
        /\ insights_txt[1].avg_product_price \in {NaN, Num(0)}

\* C3: once prepare_data has ended, the two tables the caller passed have the
\* columns and cells they had before the call.
C3_PrepareLeavesInputs ==
    Happened(Call("prepare_data")) =>
        (raw_sales = FetchedSales /\ raw_product = FetchedProduct)

\* C4: fetch_retail_data returns only if both GET requests were answered
\* with a success status.
C4_ErrorStatusFailsFetch ==
    Happened(Return("fetch_retail_data")) =>
        (Success(http.sales.status) /\ Success(http.product.status))

\* ---- C5
\* The calendar month <<year, month>> of a row of a prepared order table.
RowMonth(r) == <<r["OrderDate"][2], r["OrderDate"][3]>>
EveryDateACalendarDate(s) == \A i \in 1..Len(s.rows) : IsTs(s.rows[i]["OrderDate"])
HasId(r) == ~IsNA(r["SalesOrderID"])

\* The text k is 'YYYY-MM' for the month mo.
IsYearMonthText(k, mo) ==
    /\ k[1] = "chars"
    /\ Len(k[2]) = 7
    /\ \A j \in {1, 2, 3, 4, 6, 7} : k[2][j] \in 48..57
    /\ k[2][5] = 45
    /\ 1000 * (k[2][1] - 48) + 100 * (k[2][2] - 48) + 10 * (k[2][3] - 48) + (k[2][4] - 48) = mo[1]
    /\ 10 * (k[2][6] - 48) + (k[2][7] - 48) = mo[2]

MonthBefore(a, b) == a[1] < b[1] \/ (a[1] = b[1] /\ a[2] < b[2])

RECURSIVE TotalDueOver(_, _)
TotalDueOver(s, I) ==
    IF I = {} THEN 0
    ELSE LET i == CHOOSE x \in I : TRUE
         IN  (IF IsNum(s.rows[i]["TotalDue"]) THEN s.rows[i]["TotalDue"][2] ELSE 0)
               + TotalDueOver(s, I \ {i})

\* ms is the monthly aggregate of s: one row per month present, ascending,
\* with the month's sum of TotalDue and its count of orders; the sums add up
\* to the table's sum and the counts to the number of orders counted.  With
\* onlyWithId the orders counted are those with a SalesOrderID, without it
\* all rows.
IsMonthlyAggregate(s, ms, onlyWithId) ==
    LET rows == 1..Len(s.rows)
        months == {RowMonth(s.rows[i]) : i \in rows}
        of(mo) == {i \in rows : RowMonth(s.rows[i]) = mo}
        counted(I) == {i \in I : onlyWithId => HasId(s.rows[i])}
    IN  /\ Len(ms) = Cardinality(months)
        /\ \A mo \in months : \E g \in 1..Len(ms) :
              /\ IsYearMonthText(ms[g].OrderDate, mo)
              /\ ms[g].TotalDue = TotalDueOver(s, of(mo))
              /\ ms[g].SalesOrderID = Cardinality(counted(of(mo)))
        /\ \A g \in 1..Len(ms) : \E mo \in months : IsYearMonthText(ms[g].OrderDate, mo)
        /\ \A g, h \in 1..Len(ms) : g < h =>
              \E a, b \in months :
                 /\ IsYearMonthText(ms[g].OrderDate, a)
                 /\ IsYearMonthText(ms[h].OrderDate, b)
                 /\ MonthBefore(a, b)
        /\ SumSeq([g \in 1..Len(ms) |-> ms[g].TotalDue]) = TotalDueOver(s, rows)
        /\ SumSeq([g \in 1..Len(ms) |-> ms[g].SalesOrderID]) = Cardinality(counted(rows))

C6_StatusCountsCoverAllRows ==
    DashboardWritten =>
        LET sd == dashboard_html[1].status_dist
            labels == {sales_data.rows[i]["Status"] : i \in 1..Len(sales_data.rows)} \ {NaN}
        IN  /\ Len(sd) = Cardinality(labels)
            /\ {sd[k].label : k \in 1..Len(sd)} = labels
            /\ SumSeq([k \in 1..Len(sd) |-> sd[k].count]) = Len(sales_data.rows)

C8_MostExpensiveProduct ==
    InsightsWritten =>
        \E r \in 1..Len(product_data.rows) :
            LET price(i) == product_data.rows[i]["ListPrice"]
            IN  /\ IsNum(price(r))
                /\ \A j \in 1..Len(product_data.rows) : IsNum(price(j)) =>
                      /\ price(j)[2] <= price(r)[2]
                      /\ price(j)[2] = price(r)[2] => r <= j
                /\ insights_txt[1].most_expensive_product = product_data.rows[r]["Name"]
                /\ DashboardWritten
                /\ dashboard_html[1].top_products[1].index = r
                /\ dashboard_html[1].top_products[1].Name = product_data.rows[r]["Name"]

\* Several rows share the maximum and the first row of the table is not one
\* of them.
C8_Witness ==
    /\ InsightsWritten
    /\ \E i, j \in 2..Len(product_data.rows) :
          /\ i < j
          /\ IsNum(product_data.rows[1]["ListPrice"])
          /\ product_data.rows[i]["ListPrice"] = product_data.rows[j]["ListPrice"]
          /\ insights_txt[1].most_expensive_product = product_data.rows[i]["Name"]
          /\ product_data.rows[1]["ListPrice"] # product_data.rows[i]["ListPrice"]

\* ---- C9
\* C9: prepare_data applied to the pair a prepare_data call returned does not
\* raise and returns tables identical to that pair: the same columns in the
\* same order, the same rows, the same cells.
C9_PrepareIdempotent ==
    /\ pc = "prepare_second" => PrepareError(sales_data, product_data) = ""
    /\ pc = "prepared_twice" =>
          /\ sales_data = PrepareResult(FetchedSales, FetchedProduct).sales
          /\ product_data = PrepareResult(FetchedSales, FetchedProduct).product

\* The second call has returned, on tables that came with columns to drop and
\* dates as text.
C9_Witness ==
    /\ pc = "prepared_twice"
    /\ Len(FetchedSales.columns) > Len(sales_data.columns)
    /\ Len(FetchedProduct.columns) > Len(product_data.columns)
    /\ \E i \in 1..Len(sales_data.rows) :
          /\ FetchedSales.rows[i]["OrderDate"][1] = "chars"
          /\ IsTs(sales_data.rows[i]["OrderDate"])
    /\ \E i \in 1..Len(sales_data.rows) : sales_data.rows[i]["OrderDate"] = NaT

\* ---- C10
ExpectedTrace ==
    <<PrintLine("Fetching data..."),
      Call("fetch_retail_data"), Return("fetch_retail_data"),
      PrintLine("Preparing data..."),
      Call("prepare_data"), Return("prepare_data"),
      PrintLine("Creating dashboard..."),
      Call("create_dashboard"), Write("sales_dashboard.html"), Return("create_dashboard"),
      PrintLine("Generating insights..."),
      Call("generate_insights"), Write("insights.txt"), Return("generate_insights"),
      PrintLine("\nDashboard and insights have been generated successfully!"),
      PrintLine("Open 'sales_dashboard.html' in your web browser to view the dashboard."),
      PrintLine("Check 'insights.txt' for key business metrics.")>>

IsPrefix(t, e) == Len(t) <= Len(e) /\ t = SubSeq(e, 1, Len(t))

\* C10: what main has done so far is a prefix of: progress line, fetch,
\* progress line, prepare, progress line, create_dashboard writing
\* sales_dashboard.html, progress line, generate_insights writing
\* insights.txt, success message (or such a prefix ending in a call that
\* raised); the files exist exactly when their write has happened; and since
\* prepare_data returned, the prepared tables are the ones it returned.
C10_StagesInOrder ==
    /\ \/ IsPrefix(trace, ExpectedTrace)
       \/ /\ Len(trace) >= 2
          /\ trace[Len(trace)][1] = "raise"
          /\ trace[Len(trace) - 1] = Call(trace[Len(trace)][2])
          /\ IsPrefix(SubSeq(trace, 1, Len(trace) - 1), ExpectedTrace)
          /\ pc = "failed"
    /\ DashboardWritten <=> Happened(Write("sales_dashboard.html"))
    /\ InsightsWritten <=> Happened(Write("insights.txt"))
    /\ pc = "done" <=> trace = ExpectedTrace
    /\ Happened(Return("prepare_data")) =>
          /\ sales_data = PrepareResult(FetchedSales, FetchedProduct).sales
          /\ product_data = PrepareResult(FetchedSales, FetchedProduct).product

\* A run to the end, on tables with rows.
C10_Witness ==
    /\ pc = "done"
    /\ Len(sales_data.rows) >= 2
    /\ Len(product_data.rows) >= 2

====
